---- MODULE Spec2Model ----
(***************************************************************************)
(* Model of Nook/restore.py: restore each tracked file to the newest       *)
(* local-history snapshot inside a time window and place it inside an      *)
(* existing destination tree.                                              *)
(*                                                                         *)
(* Paths are absolute POSIX paths, written as the sequence of their        *)
(* segments after the root: /proj/lib/util.py is <<"proj","lib","util.py">>*)
(* and / is <<>>.  The file system holds no symbolic links.                *)
(***************************************************************************)
EXTENDS Integers, Sequences, FiniteSets, TLC

VARIABLES
    restore_from,      \* args.restore_from, resolved (main, line 179)
    restore_to,        \* args.restore_to, resolved (main, line 180)
    after_ms,          \* lower bound, optional (main, line 192)
    before_ms,         \* upper bound, optional (main, line 191)
    max_index_files,   \* args.max_index_files (main, line 173)
    entries,           \* data["entries"] of one history record
    sel,               \* outcome of the selection loop on `entries`
    tree,              \* destination file system: [dirs, files]
    index,             \* DestPlacer._index: <<>> is None, <<idx>> once built
    src_path,          \* argument of DestPlacer.choose_dest
    dest,              \* outcome of the call of DestPlacer.choose_dest
    file_histories,    \* the list collected by main, lines 198-205
    run                \* the two passes of main: run["dry"], run["normal"]

vars == <<restore_from, restore_to, after_ms, before_ms, max_index_files,
          entries, sel, tree, index, src_path, dest, file_histories, run>>

(***************************************************************************)
(* Bounds of the model.                                                    *)
(***************************************************************************)
MaxEntries == 3
MaxTs == 3

(***************************************************************************)
(* Optional integers (None or an int) and the timestamp field of an entry. *)
(***************************************************************************)
Unset == [set |-> FALSE, v |-> 0]
Bound(n) == [set |-> TRUE, v |-> n]

TsInt(n) == [kind |-> "int", v |-> n]
TsNull == [kind |-> "null", v |-> 0]
TsAbsent == [kind |-> "absent", v |-> 0]

Entry(id, ts) == [id |-> id, ts |-> ts]

(***************************************************************************)
(* Temporal selection: main, lines 224-239.                                *)
(***************************************************************************)

\* key=lambda e: e.get("timestamp", 0): an absent field gives 0, a null
\* field gives None.
SortKey(e) == IF e.ts.kind = "absent" THEN TsInt(0) ELSE e.ts

\* sorted() compares every element with another one as soon as the list
\* has two elements, and None < x raises TypeError.
SortRaises(es) ==
    /\ Len(es) >= 2
    /\ \E i \in 1..Len(es) : SortKey(es[i]).kind = "null"

RECURSIVE InsertSorted(_, _)
InsertSorted(s, e) ==
    IF s = <<>> THEN <<e>>
    ELSE IF SortKey(e).v < SortKey(s[Len(s)]).v
         THEN InsertSorted(SubSeq(s, 1, Len(s) - 1), e) \o <<s[Len(s)]>>
         ELSE Append(s, e)

\* The stable ascending sort of line 225 (defined when it does not raise).
RECURSIVE SortedEntries(_)
SortedEntries(es) ==
    IF es = <<>> THEN <<>>
    ELSE InsertSorted(SortedEntries(SubSeq(es, 1, Len(es) - 1)), es[Len(es)])

\* The window test with an inclusive upper bound (ts <= before).
InWindowStrictUpperDropped(ts, after, before) ==
    /\ (~after.set \/ ts >= after.v)
    /\ (~before.set \/ ts <= before.v)

\* The window test of line 233.
InWindow(ts, after, before) ==
    /\ (~after.set \/ ts >= after.v)
    /\ (~before.set \/ ts < before.v)

\* for e in reversed(entries): lines 229-235, from position i downwards.
RECURSIVE ScanNewest(_, _, _, _)
ScanNewest(s, i, after, before) ==
    IF i = 0 THEN <<>>
    ELSE IF s[i].ts.kind # "int" THEN ScanNewest(s, i - 1, after, before)
    ELSE IF InWindow(s[i].ts.v, after, before) THEN <<s[i]>>
    ELSE ScanNewest(s, i - 1, after, before)

\* Lines 225-235 as one computation: the exception raised, if any, and the
\* entry chosen (<<>> for None).
SelectEntry(es, after, before) ==
    IF SortRaises(es)
    THEN [pc |-> "TypeError", chosen |-> <<>>]
    ELSE [pc |-> "done",
          chosen |-> ScanNewest(SortedEntries(es), Len(es), after, before)]

(***************************************************************************)
(* pathlib on absolute POSIX paths.                                        *)
(***************************************************************************)
Name(p) == IF p = <<>> THEN "" ELSE p[Len(p)]

Parent(p) == IF p = <<>> THEN <<>> ELSE SubSeq(p, 1, Len(p) - 1)

\* Path.parents: the nearest ancestor first, the root last.
Parents(p) == [i \in 1..Len(p) |-> SubSeq(p, 1, Len(p) - i)]

\* Path.parts: the root, then the segments.
Parts(p) == <<"/">> \o p

IsPrefix(a, p) == Len(a) <= Len(p) /\ SubSeq(p, 1, Len(a)) = a

\* A relative path that keeps the last segment of the base.
RelativeToKeepsAnchor(p, base) ==
    IF base = <<>> THEN p ELSE SubSeq(p, Len(base), Len(p))

\* p.relative_to(base), defined when it does not raise ValueError.
RelativeTo(p, base) == SubSeq(p, Len(base) + 1, Len(p))

\* a / name, where an empty name leaves the path as it is.
JoinName(a, n) == IF n = "" THEN a ELSE Append(a, n)

\* Path.resolve() without symbolic links: "." is dropped and ".." steps to
\* the parent, the root being its own parent.
RECURSIVE ResolveFrom(_, _)
ResolveFrom(done, rest) ==
    IF rest = <<>> THEN done
    ELSE IF Head(rest) = "." THEN ResolveFrom(done, Tail(rest))
    ELSE IF Head(rest) = ".." THEN ResolveFrom(Parent(done), Tail(rest))
    ELSE ResolveFrom(Append(done, Head(rest)), Tail(rest))

\* A path left as written, dot segments included.
ResolveLeavesDots(p) == p

Resolve(p) == ResolveFrom(<<>>, p)

(***************************************************************************)
(* The destination file system.  tree.dirs is the set of directories,      *)
(* tree.files maps each regular file to its content.                       *)
(***************************************************************************)
EmptyFiles == [p \in {} |-> ""]

FilePaths(t) == DOMAIN t.files

\* The orders in which a set can be listed.
RECURSIVE Listings(_)
Listings(S) ==
    IF S = {} THEN {<<>>}
    ELSE UNION {{<<x>> \o o : o \in Listings(S \ {x})} : x \in S}

\* The orders in which os.walk(d) can yield the regular files under d:
\* top-down, the files of a directory (in os.scandir order, which is free)
\* before those of its subdirectories, each subdirectory walked as one
\* block, the subdirectories in os.scandir order.
RECURSIVE WalkDir(_, _), WalkDirs(_, _)
WalkDir(t, d) ==
    LET below == {p \in FilePaths(t) : IsPrefix(d, p) /\ p # d}
        here == {p \in below : Len(p) = Len(d) + 1}
        subdirs == {SubSeq(p, 1, Len(d) + 1) : p \in below \ here}
    IN  {fs \o rest : fs \in Listings(here),
                      rest \in UNION {WalkDirs(t, ds) : ds \in Listings(subdirs)}}

\* The walks of the directories ds, one after the other.
WalkDirs(t, ds) ==
    IF ds = <<>> THEN {<<>>}
    ELSE {w \o rest : w \in WalkDir(t, Head(ds)), rest \in WalkDirs(t, Tail(ds))}

WalkOrders(t, top) == WalkDir(t, top)

(***************************************************************************)
(* DestPlacer: lines 88-153.                                               *)
(***************************************************************************)

\* common_suffix_len, lines 76-82.
RECURSIVE CommonSuffixFrom(_, _, _)
CommonSuffixFrom(a, b, i) ==
    LET limit == IF Len(a) < Len(b) THEN Len(a) ELSE Len(b)
    IN  IF i <= limit /\ a[Len(a) - i + 1] = b[Len(b) - i + 1]
        THEN CommonSuffixFrom(a, b, i + 1)
        ELSE i - 1

common_suffix_len(a_parts, b_parts) == CommonSuffixFrom(a_parts, b_parts, 1)

\* Lines 128-129 and 134-135: the names of list(p.parents)[:-1], nearest
\* parent first, followed by the name of p.
NamesOfParentsThenName(p) ==
    [i \in 1..(Len(p) - 1) |-> Name(Parents(p)[i])] \o <<Name(p)>>

\* _build_index, lines 103-108: filename -> paths, in walk order.
_build_index(order) ==
    [fn \in {Name(order[i]) : i \in 1..Len(order)} |->
        SelectSeq(order, LAMBDA p : Name(p) = fn)]

\* self._index.get(filename, []), line 113.
IndexGet(idx, filename) ==
    IF filename \in DOMAIN idx THEN idx[filename] ELSE <<>>

IndexSize(idx) == Cardinality(UNION {{idx[fn][i] : i \in 1..Len(idx[fn])} : fn \in DOMAIN idx})

\* score > best_score on the tuples (suffix_len, -len(cand_parts)).
ScoreGreater(s, b) == s[1] > b[1] \/ (s[1] = b[1] /\ s[2] > b[2])

\* The loop of lines 133-140 from candidate i on.
RECURSIVE BestFrom(_, _, _, _, _)
BestFrom(src_parts, cands, i, best, best_score) ==
    IF i > Len(cands) THEN [best |-> best, score |-> best_score]
    ELSE LET cand_parts == NamesOfParentsThenName(cands[i])
             suffix_len == common_suffix_len(src_parts, cand_parts)
             score == <<suffix_len, 0 - Len(cand_parts)>>
         IN  IF ScoreGreater(score, best_score)
             THEN BestFrom(src_parts, cands, i + 1, <<cands[i]>>, score)
             ELSE BestFrom(src_parts, cands, i + 1, best, best_score)

\* The position of the first occurrence of x in s (list.index).
FirstIndex(s, x) == CHOOSE i \in 1..Len(s) : s[i] = x /\ \A j \in 1..(i - 1) : s[j] # x

\* Tiers 3 and 4, lines 145-153.
AnchorOrFlat(from, to, src) ==
    LET parts == Parts(src)
        anchor == Name(from)
    IN  IF \E i \in 1..Len(parts) : parts[i] = anchor
        THEN LET idx == FirstIndex(parts, anchor)
             IN  [tier |-> 3,
                  path |-> IF idx < Len(parts)
                           THEN to \o SubSeq(parts, idx + 1, Len(parts))
                           ELSE JoinName(to, Name(src))]
        ELSE [tier |-> 4, path |-> JoinName(to, Name(src))]

\* choose_dest, lines 115-153, on a placer with roots from/to and cached
\* index idx0 (<<>> when not built yet); order is the walk order os.walk
\* yields if the index is built by this call.  The result carries the
\* path returned, the return statement that produced it and the index
\* left in the placer.
\* The placement with the filename + suffix match tried before the direct
\* remap.
choose_dest_suffix_first(from, to, idx0, order, path) ==
    LET src == Resolve(path)
        idx == IF idx0 = <<>> THEN _build_index(order) ELSE idx0[1]
        candidates == IndexGet(idx, Name(src))
        b == BestFrom(NamesOfParentsThenName(src), candidates, 1,
                      <<>>, <<-1, -1>>)
    IN  IF candidates # <<>> /\ b.best # <<>> /\ b.score[1] > 0
        THEN [tier |-> 2, path |-> b.best[1], index |-> <<idx>>]
        ELSE IF IsPrefix(from, src)
        THEN [tier |-> 1, path |-> to \o RelativeTo(src, from),
              index |-> <<idx>>]
        ELSE AnchorOrFlat(from, to, src) @@ [index |-> <<idx>>]

choose_dest(from, to, idx0, order, path) ==
    LET src == Resolve(path)
    IN  IF IsPrefix(from, src)
        THEN [tier |-> 1, path |-> to \o RelativeTo(src, from), index |-> idx0]
        ELSE LET idx == IF idx0 = <<>> THEN _build_index(order) ELSE idx0[1]
                 candidates == IndexGet(idx, Name(src))
                 b == BestFrom(NamesOfParentsThenName(src), candidates, 1,
                               <<>>, <<-1, -1>>)
             IN  IF candidates # <<>> /\ b.best # <<>> /\ b.score[1] > 0
                 THEN [tier |-> 2, path |-> b.best[1], index |-> <<idx>>]
                 ELSE AnchorOrFlat(from, to, src) @@ [index |-> <<idx>>]

(***************************************************************************)
(* File system calls of main, lines 262 and 266.                           *)
(***************************************************************************)
Ancestors(p) == {SubSeq(p, 1, n) : n \in 0..Len(p)}

\* p.mkdir(parents=True, exist_ok=True): an existing directory is accepted,
\* a regular file at p raises FileExistsError, a regular file above p
\* raises NotADirectoryError, and otherwise every missing directory down to
\* p is created.
MkdirParents(t, p) ==
    IF p \in t.dirs THEN [exc |-> "none", tree |-> t]
    ELSE IF p \in FilePaths(t) THEN [exc |-> "FileExistsError", tree |-> t]
    ELSE IF Ancestors(p) \cap FilePaths(t) # {}
         THEN [exc |-> "NotADirectoryError", tree |-> t]
    ELSE [exc |-> "none",
          tree |-> [t EXCEPT !.dirs = t.dirs \cup Ancestors(p)]]

\* p.write_text(text), the parent of p being a directory: a directory at p
\* raises IsADirectoryError, otherwise the file is created or overwritten.
WriteText(t, p, text) ==
    IF p \in t.dirs THEN [exc |-> "IsADirectoryError", tree |-> t]
    ELSE [exc |-> "none",
          tree |-> [t EXCEPT !.files =
                      [q \in FilePaths(t) \cup {p} |->
                          IF q = p THEN text ELSE t.files[q]]]]

(***************************************************************************)
(* Inputs of the selection loop.                                           *)
(***************************************************************************)
TsValues == {TsInt(n) : n \in 0..MaxTs} \cup {TsNull, TsAbsent}

EntryIds == <<"e1", "e2", "e3", "e4", "e5", "e6">>

EntryLists ==
    UNION { { [i \in 1..n |-> Entry(EntryIds[i], f[i])] :
                f \in [1..n -> TsValues] } : n \in 1..MaxEntries }

\* main, lines 187-195: at least one bound, and after < before when both
\* are given.
Windows ==
    { w \in [after : {Unset} \cup {Bound(n) : n \in 0..MaxTs},
             before : {Unset} \cup {Bound(n) : n \in 0..(MaxTs + 1)}] :
        /\ w.after.set \/ w.before.set
        /\ (w.after.set /\ w.before.set) => w.after.v < w.before.v }

NoPath == <<>>
NoTree == [dirs |-> {}, files |-> <<>>]

InitSelect ==
    /\ restore_from = NoPath
    /\ restore_to = NoPath
    /\ \E w \in Windows : after_ms = w.after /\ before_ms = w.before
    /\ max_index_files = 0
    /\ entries \in EntryLists
    /\ sel = [pc |-> "start", chosen |-> <<>>]
    /\ tree = NoTree
    /\ index = <<>>
    /\ src_path = NoPath
    /\ dest = [pc |-> "start", path |-> NoPath, tier |-> 0, built |-> FALSE]
    /\ file_histories = <<>>
    /\ run = <<>>

SelectStep ==
    /\ sel.pc = "start"
    /\ sel' = SelectEntry(entries, after_ms, before_ms)
    /\ UNCHANGED <<restore_from, restore_to, after_ms, before_ms,
                   max_index_files, entries, tree, index, src_path, dest,
                   file_histories, run>>

NextSelect == SelectStep

SpecSelect == InitSelect /\ [][NextSelect]_vars

(***************************************************************************)
(* Inputs of the placer: the roots, the destination tree, the paths.       *)
(***************************************************************************)
MaxTreeFiles == 3

DefaultMaxIndexFiles == 200000

RootPairs ==
    { [from |-> <<"proj">>, to |-> <<"proj2">>],
      [from |-> <<"proj">>, to |-> <<"old", "proj2">>],
      [from |-> <<"old", "proj">>, to |-> <<"proj2">>] }

\* Files the destination tree may hold, relative to the destination root.
RelFiles ==
    { <<"core", "utils", "util.py">>,
      <<"core", "lib", "util.py">>,
      <<"lib", "util.py">>,
      <<"src", "util.py">>,
      <<"util.py">> }

TreeOf(to, rels) ==
    [dirs |-> UNION {Ancestors(Parent(to \o r)) : r \in rels} \cup Ancestors(to),
     files |-> [p \in {to \o r : r \in rels} |-> "orig"]]

InitialTrees(to) ==
    {TreeOf(to, rels) : rels \in {R \in SUBSET RelFiles : Cardinality(R) <= MaxTreeFiles}}

\* Historical paths handed to choose_dest.
SrcPaths ==
    { <<"proj", "lib", "util.py">>,
      <<"proj">>,
      <<"proj", "..", "old", "lib", "util.py">>,
      <<"old", "lib", "util.py">>,
      <<"old", "proj", "lib", "util.py">>,
      <<"old", "proj", "lib", "..", "src", "util.py">>,
      <<"old", "proj">>,
      <<"old", "core", "new.py">>,
      <<>> }

\* The indexes a placer can hold when choose_dest is called: none, or the
\* one built by an earlier call, when the tree held some of its present
\* files (the run adds files to the tree and removes none).
CachedIndexes(t, to) ==
    {<<>>} \cup
    { <<_build_index(o)>> :
        o \in UNION { WalkOrders([t EXCEPT !.files = [p \in S |-> t.files[p]]], to) :
                        S \in SUBSET FilePaths(t) } }

\* A DestPlacer on its own, before a call of choose_dest: its roots, the
\* destination tree, the cached index and the path handed to the call.
\* The method is called here with any absolute path; main hands it the
\* resolved paths it admits (specification Spec).
InitPlace ==
    /\ \E rp \in RootPairs : restore_from = rp.from /\ restore_to = rp.to
    /\ after_ms = Unset
    /\ before_ms = Unset
    /\ max_index_files \in {1, DefaultMaxIndexFiles}
    /\ entries = <<>>
    /\ sel = [pc |-> "start", chosen |-> <<>>]
    /\ tree \in InitialTrees(restore_to)
    /\ index \in CachedIndexes(tree, restore_to)
    /\ src_path \in SrcPaths
    /\ dest = [pc |-> "start", path |-> NoPath, tier |-> 0, built |-> FALSE]
    /\ file_histories = <<>>
    /\ run = <<>>

\* The walk orders a call can meet: os.walk runs only while the index is
\* not built (line 111).
WalksOf(idx0, t, to) == IF idx0 = <<>> THEN WalkOrders(t, to) ELSE {<<>>}

\* One call placer.choose_dest(src_path), lines 115-153; dest.built tells
\* whether the call built the index.
ChooseDestCall ==
    /\ dest.pc = "start"
    /\ \E order \in WalksOf(index, tree, restore_to) :
         LET r == choose_dest(restore_from, restore_to, index, order, src_path)
         IN  /\ dest' = [pc |-> "done", path |-> r.path, tier |-> r.tier,
                         built |-> (index = <<>> /\ r.index # <<>>)]
             /\ index' = r.index
    /\ UNCHANGED <<restore_from, restore_to, after_ms, before_ms,
                   max_index_files, entries, sel, tree, src_path,
                   file_histories, run>>

NextPlace == ChooseDestCall

SpecPlace == InitPlace /\ [][NextPlace]_vars

(***************************************************************************)
(* main, lines 211-278: the loop over file_histories and the summary.      *)
(* The dry-run pass and the normal pass are two runs of main on the same   *)
(* arguments, the same history store and the same destination tree; each   *)
(* has its own placer and its own copy of the destination tree.  In this   *)
(* specification `tree` is the destination tree before either pass.        *)
(***************************************************************************)
MaxFiles == 2

Modes == {"dry", "normal"}

\* Lines 217-222: under restore_from, or the name of restore_from is the
\* name of an ancestor or of the path itself.
Admitted(from, src) ==
    \/ IsPrefix(from, src)
    \/ Name(from) \in {Name(a) : a \in Ancestors(src) \ {src}}
    \/ Name(src) = Name(from)

Warned(r, k, kind) == [r EXCEPT !.warn = Append(@, [k |-> k, kind |-> kind])]

Reported(r, k, src, path) ==
    [r EXCEPT !.out = Append(@, [k |-> k, src |-> src, dest |-> path]),
              !.restored_count = @ + 1]

Raised(r, exc) == [r EXCEPT !.pc = "crashed", !.exc = exc]

\* One iteration of the loop, lines 214-273, on record number k of
\* file_histories in the pass with state r; order is the walk order os.walk
\* yields if this iteration builds the index.
LoopBody(r, dry_run, from, to, after, before, data, k, order) ==
    LET src == Resolve(data.resource)
        next == [r EXCEPT !.i = k, !.dests = Append(@, <<>>)]
        s == SelectEntry(data.entries, after, before)
    IN  IF ~Admitted(from, src) THEN next
        ELSE IF s.pc = "TypeError" THEN Raised(next, "TypeError")
        ELSE IF s.chosen = <<>> THEN next
        ELSE IF s.chosen[1].id = "" THEN next
        ELSE IF data.blob = "missing" THEN Warned(next, k, "missing")
        ELSE IF data.blob = "unreadable" THEN Warned(next, k, "read")
        ELSE
          LET c == choose_dest(from, to, r.index, order, src)
              placed == [r EXCEPT !.i = k,
                                  !.dests = Append(@, <<c.path>>),
                                  !.index = c.index]
              m == MkdirParents(r.tree, Parent(c.path))
              made == [placed EXCEPT !.tree = m.tree]
              w == WriteText(m.tree, c.path, s.chosen[1].id)
          IN  IF m.exc # "none" THEN Raised(placed, m.exc)
              ELSE IF dry_run THEN Reported(made, k, src, c.path)
              ELSE IF w.exc # "none" THEN Warned(made, k, "write")
              ELSE Reported([made EXCEPT !.tree = w.tree], k, src, c.path)

\* History records: the resource, its entries and where the content blob
\* of the chosen entry is found.
Saves == <<Entry("e1", TsInt(1)), Entry("e2", TsInt(3))>>

TrackedRecords ==
    { [resource |-> <<"proj", "lib", "util.py">>, entries |-> Saves,
       blob |-> "primary"],
      [resource |-> <<"old", "proj", "src", "util.py">>, entries |-> Saves,
       blob |-> "alt"],
      [resource |-> <<"proj", "lib">>, entries |-> Saves, blob |-> "primary"],
      [resource |-> <<"proj", "core", "new.py">>,
       entries |-> <<Entry("e1", TsInt(1)), Entry("", TsInt(3))>>,
       blob |-> "primary"],
      [resource |-> <<"proj", "src", "util.py">>, entries |-> Saves,
       blob |-> "missing"],
      [resource |-> <<"proj", "util.py">>, entries |-> Saves,
       blob |-> "unreadable"],
      [resource |-> <<"proj", "new.py">>,
       entries |-> <<Entry("e1", TsNull), Entry("e2", TsInt(3))>>,
       blob |-> "primary"],
      [resource |-> <<"old", "lib", "util.py">>, entries |-> Saves,
       blob |-> "primary"] }

HistoryLists ==
    UNION {[1..n -> TrackedRecords] : n \in 1..MaxFiles}

\* Destination trees before the run; <<"lib">> is a regular file named lib
\* directly under the destination root.
MainTrees(to) ==
    { TreeOf(to, {}),
      TreeOf(to, {<<"core", "utils", "util.py">>}),
      TreeOf(to, {<<"lib", "util.py">>}),
      TreeOf(to, {<<"lib">>}) }

MainWindows ==
    { [after |-> Bound(2), before |-> Unset],
      [after |-> Bound(1), before |-> Bound(3)],
      [after |-> Unset, before |-> Bound(1)] }

\* The state of a pass at line 213.
StartOfRun(t) ==
    [pc |-> "loop", exc |-> "none", i |-> 0, tree |-> t, index |-> <<>>,
     dests |-> <<>>, out |-> <<>>, warn |-> <<>>, restored_count |-> 0]

Init ==
    /\ restore_from = <<"proj">>
    /\ restore_to = <<"proj2">>
    /\ \E w \in MainWindows : after_ms = w.after /\ before_ms = w.before
    /\ max_index_files = DefaultMaxIndexFiles
    /\ entries = <<>>
    /\ sel = [pc |-> "start", chosen |-> <<>>]
    /\ tree \in MainTrees(restore_to)
    /\ index = <<>>
    /\ src_path = NoPath
    /\ dest = [pc |-> "start", path |-> NoPath, tier |-> 0, built |-> FALSE]
    /\ file_histories \in HistoryLists
    /\ run = [m \in Modes |-> StartOfRun(tree)]

ProcessFile(m) ==
    /\ run[m].pc = "loop"
    /\ run[m].i < Len(file_histories)
    /\ \E order \in WalksOf(run[m].index, run[m].tree, restore_to) :
         run' = [run EXCEPT ![m] =
                    LoopBody(run[m], m = "dry", restore_from, restore_to,
                             after_ms, before_ms,
                             file_histories[run[m].i + 1], run[m].i + 1,
                             order)]
    /\ UNCHANGED <<restore_from, restore_to, after_ms, before_ms,
                   max_index_files, entries, sel, tree, index, src_path,
                   dest, file_histories>>

\* Lines 275-278: the summary line, after the last record.
PrintSummary(m) ==
    /\ run[m].pc = "loop"
    /\ run[m].i = Len(file_histories)
    /\ run' = [run EXCEPT ![m].pc = "done"]
    /\ UNCHANGED <<restore_from, restore_to, after_ms, before_ms,
                   max_index_files, entries, sel, tree, index, src_path,
                   dest, file_histories>>

Next == \E m \in Modes : ProcessFile(m) \/ PrintSummary(m)

Spec == Init /\ [][Next]_vars

(***************************************************************************)
(* Claims on the selection loop (checked under SpecSelect).                *)
(***************************************************************************)
AllInt(es) == \A i \in 1..Len(es) : es[i].ts.kind = "int"

WellFormed(es) == {i \in 1..Len(es) : es[i].ts.kind = "int"}

\* The window of the claims, stated on its own.
Qualifying(es) ==
    {i \in WellFormed(es) :
        /\ (after_ms.set => es[i].ts.v >= after_ms.v)
        /\ (before_ms.set => es[i].ts.v < before_ms.v)}

NewestQualifyingChosen ==
    /\ sel.pc = "done"
    /\ (sel.chosen = <<>>) <=> (Qualifying(entries) = {})
    /\ sel.chosen # <<>> =>
         /\ \E i \in Qualifying(entries) : entries[i] = sel.chosen[1]
         /\ \A i \in Qualifying(entries) :
                entries[i].ts.v <= sel.chosen[1].ts.v

\* C1: on a list whose entries all carry integer timestamps the loop
\* chooses an entry inside [after, before) with the greatest timestamp of
\* the qualifying entries, and chooses nothing exactly when none qualifies.
C1_WindowSelection ==
    (sel.pc # "start" /\ AllInt(entries)) => NewestQualifyingChosen

C1_Witness ==
    /\ sel.pc = "done"
    /\ AllInt(entries)
    /\ Len(entries) = 3
    /\ after_ms.set /\ before_ms.set
    /\ sel.chosen # <<>>
    /\ sel.chosen[1].ts.v = after_ms.v
    /\ \E i \in 1..Len(entries) : entries[i].ts.v = before_ms.v
    /\ \E i \in 1..Len(entries) : entries[i].ts.v < after_ms.v

\* C10: entries with an absent or null timestamp are never chosen, the sort
\* and the scan complete without error, and the newest qualifying
\* well-formed entry is chosen.
C10_MalformedSkipped ==
    (sel.pc # "start" /\ ~AllInt(entries)) => NewestQualifyingChosen

(***************************************************************************)
(* Claims on DestPlacer.choose_dest (checked under SpecPlace).             *)
(***************************************************************************)
Called == dest.pc # "start"

UnderSourceRoot == IsPrefix(restore_from, Resolve(src_path))

\* C2: a historical path under the source root is sent to the destination
\* root joined with its position relative to the source root, whatever the
\* destination tree holds and whatever the cached index is.
C2_DirectRemap ==
    (Called /\ UnderSourceRoot) =>
        LET s == Resolve(src_path)
            n == Len(s) - Len(restore_from)
        IN  /\ Len(dest.path) = Len(restore_to) + n
            /\ IsPrefix(restore_to, dest.path)
            /\ \A i \in 1..n :
                   dest.path[Len(restore_to) + i] = s[Len(restore_from) + i]

C2_Witness ==
    /\ dest.pc = "done"
    /\ UnderSourceRoot
    /\ Len(Resolve(src_path)) > Len(restore_from)
    /\ index # <<>>
    /\ IndexGet(index[1], Name(Resolve(src_path))) # <<>>
    /\ dest.path \notin FilePaths(tree)

ScenarioRoots == restore_from = <<"proj">> /\ restore_to = <<"proj2">>

MovedFileOnly ==
    /\ <<"proj2", "core", "utils", "util.py">> \in FilePaths(tree)
    /\ <<"proj2", "lib", "util.py">> \notin FilePaths(tree)

\* C3 as stated: in the reorganized tree the historical path
\* /proj/lib/util.py is sent to the moved file /proj2/core/utils/util.py by
\* the tier-2 match.
C3_ReorganizedTreeTier2 ==
    (dest.pc = "done" /\ ScenarioRoots /\ MovedFileOnly
        /\ src_path = <<"proj", "lib", "util.py">>) =>
        /\ dest.path = <<"proj2", "core", "utils", "util.py">>
        /\ dest.tier = 2

\* C3: in the reorganized tree the historical path /proj/lib/util.py, which
\* lies under the source root, is sent to /proj2/lib/util.py by the direct
\* remap; the tier-2 match sends a path outside the source root with the
\* same tail, /old/proj/lib/util.py, to the moved file when that file is
\* the only indexed util.py.
C3_ReorganizedTreeDirectRemap ==
    (dest.pc = "done" /\ ScenarioRoots /\ MovedFileOnly) =>
        /\ src_path = <<"proj", "lib", "util.py">> =>
              /\ dest.path = <<"proj2", "lib", "util.py">>
              /\ dest.tier = 1
        /\ (/\ src_path = <<"old", "proj", "lib", "util.py">>
            /\ index # <<>>
            /\ IndexGet(index[1], "util.py")
                  = <<(<<"proj2", "core", "utils", "util.py">>)>>) =>
              /\ dest.path = <<"proj2", "core", "utils", "util.py">>
              /\ dest.tier = 2

C3_Witness ==
    /\ dest.pc = "done"
    /\ ScenarioRoots
    /\ MovedFileOnly
    /\ src_path = <<"proj", "lib", "util.py">>
    /\ dest.path = <<"proj2", "lib", "util.py">>
    /\ index # <<>>

\* The number of trailing segments two paths share, counted from the
\* filename backward: filename, parent directory, grandparent directory...
SuffixDepth(a, b) ==
    Cardinality({n \in 1..(IF Len(a) < Len(b) THEN Len(a) ELSE Len(b)) :
        \A i \in 1..n : a[Len(a) - i + 1] = b[Len(b) - i + 1]})

\* C4: for a historical path outside the source root with two indexed
\* candidates of its filename, the candidate with the greater suffix depth
\* is returned, and at equal depth the one with fewer path segments.
C4_SuffixTieBreak ==
    (Called /\ ~UnderSourceRoot /\ index # <<>>) =>
        LET s == Resolve(src_path)
            cands == IndexGet(index[1], Name(s))
        IN  Len(cands) = 2 =>
              \A i, j \in 1..2 :
                  \/ SuffixDepth(s, cands[i]) > SuffixDepth(s, cands[j])
                  \/ /\ SuffixDepth(s, cands[i]) = SuffixDepth(s, cands[j])
                     /\ Len(cands[i]) < Len(cands[j])
                  => dest.path = cands[i]

NoDots(p) == \A i \in 1..Len(p) : p[i] \notin {".", ".."}

\* C5: choose_dest returns a path for every historical path, and the path
\* is the destination root or lies in its subtree.
C5_TotalAndContained ==
    Called =>
        /\ dest.tier \in 1..4
        /\ IsPrefix(restore_to, dest.path)
        /\ NoDots(dest.path)

C5_Witness ==
    /\ dest.pc = "done"
    /\ dest.tier = 3
    /\ ~NoDots(src_path)
    /\ IsPrefix(restore_to, dest.path)
    /\ Len(dest.path) > Len(restore_to)

\* C9: the index built by the placer holds at most max_index_files paths.
C9_IndexCapped ==
    dest.built => IndexSize(index[1]) <= max_index_files

(***************************************************************************)
(* Claims on the run of main (checked under Spec).                         *)
(***************************************************************************)

\* C6: a dry-run pass leaves the destination tree as it was: the same
\* directories, the same files, the same contents.
C6_DryRunNoMutation == run["dry"].tree = tree

ReportedDest(r, k) == {r.out[n].dest : n \in {x \in 1..Len(r.out) : r.out[x].k = k}}

\* C7: the dry-run pass and the normal pass report the same destination
\* path for every tracked file that both report.
C7_DryRunPlanFidelity ==
    (run["dry"].pc = "done" /\ run["normal"].pc = "done") =>
        \A k \in 1..Len(file_histories) :
            \/ ReportedDest(run["dry"], k) = {}
            \/ ReportedDest(run["normal"], k) = {}
            \/ ReportedDest(run["dry"], k) = ReportedDest(run["normal"], k)

\* The content cannot be written at path p: p is a directory, or a regular
\* file occupies the parent of p or a directory above it.
CannotWrite(t, p) ==
    \/ p \in t.dirs
    \/ Ancestors(Parent(p)) \cap FilePaths(t) # {}

\* C8: in a normal pass a file whose content cannot be written at its
\* destination is skipped with a warning, without an outcome line and
\* without counting it, and the pass goes on.
C8_WriteFailureNonFatal ==
    LET r == run["normal"]
    IN  \A k \in 1..r.i :
            (r.dests[k] # <<>> /\ CannotWrite(r.tree, r.dests[k][1])) =>
                /\ r.pc # "crashed"
                /\ \E n \in 1..Len(r.warn) :
                       r.warn[n] = [k |-> k, kind |-> "write"]
                /\ ReportedDest(r, k) = {}
                /\ r.restored_count = Len(r.out)

====
